---- MODULE Spec2Model ----
(***************************************************************************)
(* Model of two shims of the desktop shell:                                *)
(*   browser/message_box_win.cc          MessageDialog and ShowMessageBox  *)
(*   atom/browser/api/atom_api_power_monitor.cc   PowerMonitor binding     *)
(* The message box is checked under Spec (and LiveSpec for termination),   *)
(* the power monitor under PowerSpec.                                      *)
(***************************************************************************)
EXTENDS Integers, Sequences, FiniteSets, TLC

VARIABLES
  \* ShowMessageBox / MessageDialog
  buttons,        \* the input label list of ShowMessageBox
  buttons_,       \* MessageDialog::buttons_ : the LabelButtons, each with text and tag
  should_close_,  \* MessageDialog::should_close_
  result_,        \* MessageDialog::result_
  widget_,        \* state of the views::Widget: "open", "closing", "destroyed"
  pc,             \* position of ShowMessageBox: "run", "after_loop", "returned"
  ret,            \* value returned by ShowMessageBox (NoValue before the return)
  lastPressed,    \* history: zero-based position of the last pressed button, or NoPress
  lastOp,         \* history: the last callback that ran
  \* PowerMonitor binding
  is_ready,       \* Browser::is_ready()
  objs,           \* the PowerMonitor objects ever constructed: "alive" or "destroyed"
  observers,      \* observer list of base::PowerMonitor
  emitted,        \* the events emitted, in order, each with its emitter
  delivered,      \* history: the callbacks delivered, in order
  thrown,         \* the errors thrown by Create, in order
  handle,         \* the value Create returned last
  creates         \* history: number of calls of Create

msgVars == <<buttons, buttons_, should_close_, result_, widget_, pc, ret, lastPressed, lastOp>>
powerVars == <<is_ready, objs, observers, emitted, delivered, thrown, handle, creates>>
vars == <<buttons, buttons_, should_close_, result_, widget_, pc, ret, lastPressed, lastOp,
          is_ready, objs, observers, emitted, delivered, thrown, handle, creates>>

----------------------------------------------------------------------------
\* Bounds

MaxButtons == 3
MaxMonitors == 2
MaxEvents == 4
MaxCreates == 2

----------------------------------------------------------------------------
\* Strings are sequences of one-character strings.

UpperChars == <<"A","B","C","D","E","F","G","H","I","J","K","L","M",
                "N","O","P","Q","R","S","T","U","V","W","X","Y","Z">>
LowerChars == <<"a","b","c","d","e","f","g","h","i","j","k","l","m",
                "n","o","p","q","r","s","t","u","v","w","x","y","z">>

\* base::ToLowerASCII
ToLowerASCII(c) ==
  IF \E k \in 1..26 : UpperChars[k] = c
    THEN LowerChars[CHOOSE k \in 1..26 : UpperChars[k] = c]
    ELSE c

\* DoLowerCaseEqualsASCII: walk a; fail when b ends first or a character
\* differs after lowering a's; succeed when b ends with a.
RECURSIVE DoLowerCaseEqualsASCII(_, _, _)
DoLowerCaseEqualsASCII(a, b, it) ==
  IF it > Len(a)
    THEN it = Len(b) + 1
    ELSE IF it > Len(b) \/ ToLowerASCII(a[it]) # b[it]
           THEN FALSE
           ELSE DoLowerCaseEqualsASCII(a, b, it + 1)

\* Variant: the comparison without lowering the label.
LowerCaseEqualsASCII_CaseSensitive(a, b) == a = b

LowerCaseEqualsASCII(a, b) == DoLowerCaseEqualsASCII(a, b, 1)

kCancel == <<"c","a","n","c","e","l">>

\* The labels the button lists are drawn from.
Labels == { <<"c","a","n","c","e","l">>,
            <<"C","a","N","c","E","L">>,
            <<"O","K">>,
            <<"c","a","n","c","e">>,
            <<"c","a","n","c","e","l","s">> }

RECURSIVE SeqsUpTo(_, _)
SeqsUpTo(S, n) ==
  IF n = 0 THEN { <<>> }
  ELSE LET shorter == SeqsUpTo(S, n - 1)
       IN shorter \cup { Append(s, x) : s \in { t \in shorter : Len(t) = n - 1 }, x \in S }

\* DCHECK(buttons.size() > 0)
ButtonLists == { b \in SeqsUpTo(Labels, MaxButtons) : Len(b) > 0 }

NoResult == -1
\* History sentinels, outside the range of button indexes.
NoPress == NoResult
NoValue == NoResult - 1

----------------------------------------------------------------------------
\* MessageDialog

\* Variant: tags counted from one.
ButtonTag_FromOne(i) == i + 1

\* The tag the constructor gives the button it creates at loop index i (zero-based).
ButtonTag(i) == i

\* The constructor's loop over the labels: one LabelButton per label, tagged i.
RECURSIVE MakeButtons(_, _, _)
MakeButtons(b, i, acc) ==
  IF i < Len(b)
    THEN MakeButtons(b, i + 1, Append(acc, [text |-> b[i + 1], tag |-> ButtonTag(i)]))
    ELSE acc

\* MessageDialog::MessageDialog followed by entering run_loop.Run()
MsgInit ==
  \E b \in ButtonLists :
    /\ buttons = b
    /\ buttons_ = MakeButtons(b, 0, <<>>)
    /\ should_close_ = FALSE
    /\ result_ = NoResult
    /\ widget_ = "open"
    /\ pc = "run"
    /\ ret = NoValue
    /\ lastPressed = NoPress
    /\ lastOp = "MessageDialog"

\* views::Widget::Close(): the first call starts the asynchronous close.
WidgetClose(w) == IF w = "open" THEN "closing" ELSE w

\* Variant: only the first press is recorded.
ButtonPressedResult_FirstOnly(sender) ==
  IF result_ = NoResult THEN buttons_[sender].tag ELSE result_

\* Variant: the press does not close the widget.
ButtonPressedWidget_NoClose(w) == w

\* MessageDialog::ButtonPressed
ButtonPressedResult(sender) == buttons_[sender].tag

ButtonPressedWidget(w) == WidgetClose(w)

\* Variant: Dispatch returns the flag itself.
DispatchReturn_Inverted(sc) == sc

\* The value MessageDialog::Dispatch returns.
DispatchReturn(sc) == ~sc

\* The native events the loop hands to Dispatch.
Events == { [kind |-> "other", button |-> 0], [kind |-> "close", button |-> 0] }
            \cup { [kind |-> "click", button |-> k] : k \in 1..MaxButtons }

\* MessageDialog::Dispatch: DispatchMessage runs the handler of the event
\* (ButtonPressed for a click on a button, Widget::Close for a close request),
\* then the loop goes on iff Dispatch returns true.
Dispatch(ev) ==
  /\ pc = "run"
  /\ \/ /\ ev.kind = "other"
        /\ lastOp' = "Dispatch"
        /\ UNCHANGED <<result_, widget_, lastPressed>>
     \/ /\ ev.kind = "close"
        /\ widget_ # "destroyed"
        /\ widget_' = WidgetClose(widget_)
        /\ lastOp' = "Dispatch"
        /\ UNCHANGED <<result_, lastPressed>>
     \/ /\ ev.kind = "click"
        /\ ev.button \in 1..Len(buttons_)
        /\ widget_ # "destroyed"
        /\ result_' = ButtonPressedResult(ev.button)
        /\ widget_' = ButtonPressedWidget(widget_)
        /\ lastPressed' = ev.button - 1
        /\ lastOp' = "ButtonPressed"
  /\ pc' = IF DispatchReturn(should_close_) THEN "run" ELSE "after_loop"
  /\ UNCHANGED <<buttons, buttons_, should_close_, ret>>
  /\ UNCHANGED powerVars

\* MessageDialog::WindowClosing, called when the native widget is destroyed.
WindowClosing ==
  /\ pc = "run"
  /\ widget_ # "destroyed"
  /\ should_close_' = TRUE
  /\ widget_' = "destroyed"
  /\ lastOp' = "WindowClosing"
  /\ UNCHANGED <<buttons, buttons_, result_, pc, ret, lastPressed>>
  /\ UNCHANGED powerVars

\* Variant: the search falls through to the sentinel instead of 0.
RECURSIVE FindCancel_NoDefault(_, _)
FindCancel_NoDefault(b, i) ==
  IF i < Len(b)
    THEN IF LowerCaseEqualsASCII(b[i + 1], kCancel) THEN i ELSE FindCancel_NoDefault(b, i + 1)
    ELSE NoResult

\* The search of ShowMessageBox for the cancel button, from index i (zero-based).
RECURSIVE FindCancel(_, _)
FindCancel(b, i) ==
  IF i < Len(b)
    THEN IF LowerCaseEqualsASCII(b[i + 1], kCancel) THEN i ELSE FindCancel(b, i + 1)
    ELSE 0

\* The value ShowMessageBox returns once the loop has ended.
ReturnValue(b, r) == IF r = NoResult THEN FindCancel(b, 0) ELSE r

\* ShowMessageBox after run_loop.Run()
Return ==
  /\ pc = "after_loop"
  /\ ret' = ReturnValue(buttons, result_)
  /\ pc' = "returned"
  /\ lastOp' = "ShowMessageBox"
  /\ UNCHANGED <<buttons, buttons_, should_close_, result_, widget_, lastPressed>>
  /\ UNCHANGED powerVars

MsgNext ==
  \/ \E ev \in Events : Dispatch(ev)
  \/ WindowClosing
  \/ Return

----------------------------------------------------------------------------
\* PowerMonitor binding

kNotReadyError == "Cannot initialize \"power-monitor\" module before app is ready"

Null == "null"
NoHandle == "none"

PowerInit ==
  /\ is_ready = FALSE
  /\ objs = <<>>
  /\ observers = {}
  /\ emitted = <<>>
  /\ delivered = <<>>
  /\ thrown = <<>>
  /\ handle = NoHandle
  /\ creates = 0

\* Browser becomes ready (the application finished launching).
BrowserReady ==
  /\ ~is_ready
  /\ is_ready' = TRUE
  /\ UNCHANGED <<objs, observers, emitted, delivered, thrown, handle, creates>>
  /\ UNCHANGED msgVars

\* PowerMonitor::PowerMonitor: base::PowerMonitor::Get()->AddObserver(this)
ConstructorObservers(obs, this) == obs \cup {this}

\* Variant: the destructor leaves the observer registered.
DestructorObservers_NoRemove(obs, this) == obs

\* PowerMonitor::~PowerMonitor: base::PowerMonitor::Get()->RemoveObserver(this)
DestructorObservers(obs, this) == obs \ {this}

\* Variant: Create never checks readiness.
CreateRefuses_Never(ready) == FALSE

\* The guard of PowerMonitor::Create: true when Create refuses.
CreateRefuses(ready) == ~ready

\* PowerMonitor::Create, as called by Initialize
Create ==
  /\ creates < MaxCreates
  /\ creates' = creates + 1
  /\ IF CreateRefuses(is_ready)
       THEN /\ thrown' = Append(thrown, kNotReadyError)
            /\ handle' = Null
            /\ UNCHANGED <<objs, observers>>
       ELSE /\ Len(objs) < MaxMonitors
            /\ objs' = Append(objs, "alive")
            /\ observers' = ConstructorObservers(observers, Len(objs) + 1)
            /\ handle' = Len(objs) + 1
            /\ UNCHANGED thrown
  /\ UNCHANGED <<is_ready, emitted, delivered>>
  /\ UNCHANGED msgVars

\* PowerMonitor::~PowerMonitor
Destroy(this) ==
  /\ this \in 1..Len(objs)
  /\ objs[this] = "alive"
  /\ objs' = [objs EXCEPT ![this] = "destroyed"]
  /\ observers' = DestructorObservers(observers, this)
  /\ UNCHANGED <<is_ready, emitted, delivered, thrown, handle, creates>>
  /\ UNCHANGED msgVars

\* Variant: the two branches swapped.
PowerStateEvent_Swapped(on_battery_power) == IF on_battery_power THEN "on-ac" ELSE "on-battery"

\* The event PowerMonitor::OnPowerStateChange emits.
PowerStateEvent(on_battery_power) == IF on_battery_power THEN "on-battery" ELSE "on-ac"

\* The event PowerMonitor::OnSuspend emits.
SuspendEvent == "suspend"

\* Variant: a fifth event name.
ResumeEvent_Renamed == "resumed"

\* The event PowerMonitor::OnResume emits.
ResumeEvent == "resume"

\* EventEmitter::Emit on object this
Emit(this, name) == emitted' = Append(emitted, [obj |-> this, name |-> name])

\* PowerMonitor::OnPowerStateChange, delivered to a registered observer
OnPowerStateChange(this, on_battery_power) ==
  /\ this \in observers
  /\ Len(emitted) < MaxEvents
  /\ Emit(this, PowerStateEvent(on_battery_power))
  /\ delivered' = Append(delivered,
                         [obj |-> this, cb |-> "OnPowerStateChange", arg |-> on_battery_power])
  /\ UNCHANGED <<is_ready, objs, observers, thrown, handle, creates>>
  /\ UNCHANGED msgVars

\* PowerMonitor::OnSuspend, delivered to a registered observer
OnSuspend(this) ==
  /\ this \in observers
  /\ Len(emitted) < MaxEvents
  /\ Emit(this, SuspendEvent)
  /\ delivered' = Append(delivered, [obj |-> this, cb |-> "OnSuspend", arg |-> FALSE])
  /\ UNCHANGED <<is_ready, objs, observers, thrown, handle, creates>>
  /\ UNCHANGED msgVars

\* PowerMonitor::OnResume, delivered to a registered observer
OnResume(this) ==
  /\ this \in observers
  /\ Len(emitted) < MaxEvents
  /\ Emit(this, ResumeEvent)
  /\ delivered' = Append(delivered, [obj |-> this, cb |-> "OnResume", arg |-> FALSE])
  /\ UNCHANGED <<is_ready, objs, observers, thrown, handle, creates>>
  /\ UNCHANGED msgVars

PowerNext ==
  \/ BrowserReady
  \/ Create
  \/ \E o \in 1..MaxMonitors : Destroy(o)
  \/ \E o \in 1..MaxMonitors, b \in BOOLEAN : OnPowerStateChange(o, b)
  \/ \E o \in 1..MaxMonitors : OnSuspend(o)
  \/ \E o \in 1..MaxMonitors : OnResume(o)

----------------------------------------------------------------------------
\* Specifications

Init == MsgInit /\ PowerInit

Next == MsgNext

\* The message box: one call of ShowMessageBox on any non-empty button list.
Spec == Init /\ [][Next]_vars

\* The loop keeps dispatching events and runs the posted close of the widget;
\* ShowMessageBox goes on once the loop has ended.
LiveSpec ==
  /\ Spec
  /\ WF_vars(\E ev \in Events : Dispatch(ev))
  /\ WF_vars(WindowClosing /\ widget_ = "closing")
  /\ WF_vars(Return)

\* The power monitor binding, next to one dialog that stays open.
PowerInitAll ==
  /\ PowerInit
  /\ buttons = << kCancel >>
  /\ buttons_ = MakeButtons(buttons, 0, <<>>)
  /\ should_close_ = FALSE
  /\ result_ = NoResult
  /\ widget_ = "open"
  /\ pc = "run"
  /\ ret = NoValue
  /\ lastPressed = NoPress
  /\ lastOp = "MessageDialog"

PowerSpec == PowerInitAll /\ [][PowerNext]_vars

----------------------------------------------------------------------------
\* Properties of ShowMessageBox (Spec, LiveSpec)

Returned == pc = "returned"

\* C1: when a button was pressed, ShowMessageBox returns the zero-based
\* position of the (last) pressed button in the input label list, whatever
\* the labels are.
PressedIndexReturned ==
  (Returned /\ lastPressed # NoPress) => ret = lastPressed

\* C1 witness: a button other than the first was pressed although the first
\* one is a cancel button, and ShowMessageBox has returned.
PressedIndexWitness ==
  /\ Returned
  /\ lastPressed = 1
  /\ buttons[1] = kCancel

\* The letters that equal each letter of "cancel" when case is ignored.
CancelLetters == << {"c","C"}, {"a","A"}, {"n","N"}, {"c","C"}, {"e","E"}, {"l","L"} >>

IsCancelLabel(l) == Len(l) = 6 /\ \A k \in 1..6 : l[k] \in CancelLetters[k]

DismissedIndex(b) ==
  IF \E k \in 1..Len(b) : IsCancelLabel(b[k])
    THEN (CHOOSE k \in 1..Len(b) :
            IsCancelLabel(b[k]) /\ \A j \in 1..(k - 1) : ~IsCancelLabel(b[j])) - 1
    ELSE 0

\* C2: when the dialog was closed and no button was ever pressed,
\* ShowMessageBox returns the index of the lowest-indexed button whose label
\* is "cancel" in any letter case, and 0 when there is none.
DismissedIndexReturned ==
  (Returned /\ lastPressed = NoPress) => ret = DismissedIndex(buttons)

\* C2 witness: closed without a press, with a mixed-case cancel button
\* behind a button that is not a cancel button.
DismissedIndexWitness ==
  /\ Returned
  /\ lastPressed = NoPress
  /\ Len(buttons) >= 2
  /\ ~IsCancelLabel(buttons[1])
  /\ buttons[2] = <<"C","a","N","c","E","L">>

\* C5: ShowMessageBox leaves the nested loop only after WindowClosing has
\* run and set should_close_; while the dialog has not been closed the
\* loop goes on, whatever was dispatched.
ReturnsOnlyAfterClose ==
  (pc # "run") => (should_close_ /\ widget_ = "destroyed")

\* C5 witness: the loop has ended after the window was closed.
ReturnsOnlyAfterCloseWitness ==
  /\ pc = "after_loop"
  /\ should_close_
  /\ lastOp = "Dispatch"

UserResponded == lastPressed # NoPress \/ widget_ # "open"

\* C8: once a button was pressed or the window was asked to close,
\* ShowMessageBox eventually returns (the loop keeps dispatching events).
RespondedLeadsToReturn == UserResponded ~> Returned

\* C8 witness: ShowMessageBox has returned after a press.
RespondedLeadsToReturnWitness ==
  /\ Returned
  /\ lastPressed # NoPress
  /\ ret = lastPressed
  /\ Len(buttons) >= 2

\* C9: the returned value is a valid index into the button list,
\* 0 <= ret < N; the sentinel -1 is never returned.
ReturnedIndexValid ==
  Returned => (ret \in 0..(Len(buttons) - 1) /\ ret # NoResult)

\* C9 witness: the last index of a list of several buttons is returned.
ReturnedIndexValidWitness ==
  /\ Returned
  /\ Len(buttons) >= 2
  /\ ret = Len(buttons) - 1

\* C10: result_ is -1 as long as no button was pressed; after a press it is
\* the tag of the most recently pressed button, never -1 again; WindowClosing
\* and a Dispatch that runs no ButtonPressed leave it unchanged.
ResultTracksPresses ==
  /\ [](IF lastPressed = NoPress
          THEN result_ = -1
          ELSE result_ = buttons_[lastPressed + 1].tag /\ result_ # -1)
  /\ [][lastOp' \in {"WindowClosing", "Dispatch", "ShowMessageBox"} => result_' = result_]_vars

\* C10 witness: the window closed after the first of several buttons was
\* pressed, and result_ is still that button's tag.
ResultTracksPressesWitness ==
  /\ lastOp = "WindowClosing"
  /\ lastPressed = 0
  /\ result_ = 0
  /\ Len(buttons) >= 2

----------------------------------------------------------------------------
\* Properties of the PowerMonitor binding (PowerSpec)

EventOf(d) ==
  CASE d.cb = "OnPowerStateChange" /\ d.arg -> "on-battery"
    [] d.cb = "OnPowerStateChange" /\ ~d.arg -> "on-ac"
    [] d.cb = "OnSuspend" -> "suspend"
    [] d.cb = "OnResume" -> "resume"

\* C3: the emitted events are the image of the delivered callbacks, in
\* order and one for one: OnPowerStateChange(true) -> "on-battery",
\* OnPowerStateChange(false) -> "on-ac", OnSuspend -> "suspend",
\* OnResume -> "resume".
CallbacksMapToEvents ==
  /\ Len(emitted) = Len(delivered)
  /\ \A k \in 1..Len(delivered) :
       emitted[k] = [obj |-> delivered[k].obj, name |-> EventOf(delivered[k])]

\* C3 witness: both kinds of power state change and a suspend were delivered.
CallbacksMapToEventsWitness ==
  /\ Len(delivered) >= 3
  /\ \E k \in 1..Len(delivered) : delivered[k].cb = "OnPowerStateChange" /\ delivered[k].arg
  /\ \E k \in 1..Len(delivered) : delivered[k].cb = "OnPowerStateChange" /\ ~delivered[k].arg
  /\ \E k \in 1..Len(delivered) : delivered[k].cb = "OnSuspend"

\* C4: every Create called while the browser is not ready throws the
\* not-ready error, returns null, constructs no object and registers no
\* observer.
CreateBeforeReadyFails ==
  [][(creates' # creates /\ ~is_ready) =>
       /\ thrown' = Append(thrown, "Cannot initialize \"power-monitor\" module before app is ready")
       /\ handle' = "null"
       /\ objs' = objs
       /\ observers' = observers]_vars

\* C4 witness: Create was refused twice and nothing was constructed.
CreateBeforeReadyFailsWitness ==
  /\ ~is_ready
  /\ Len(thrown) >= 2
  /\ handle = "null"
  /\ objs = <<>>
  /\ observers = {}

Alive == { o \in 1..Len(objs) : objs[o] = "alive" }

\* C6: an object is in the observer set iff it was constructed and is not
\* destroyed, and no event is emitted by a destroyed object.
ObserverIffAlive ==
  /\ [](observers = Alive)
  /\ [][emitted' # emitted => emitted'[Len(emitted')].obj \in Alive]_vars

\* C6 witness: one object destroyed, another alive and emitting.
ObserverIffAliveWitness ==
  /\ Len(objs) >= 2
  /\ objs[1] = "destroyed"
  /\ objs[2] = "alive"
  /\ Len(emitted) >= 1
  /\ emitted[Len(emitted)].obj = 2

EmittedNames == { emitted[k].name : k \in 1..Len(emitted) }

\* C7 as stated: at most three distinct event names are ever emitted.
ThreeEventNames == Cardinality(EmittedNames) <= 3

\* C7 amended: the event names that can be emitted are exactly the four
\* "on-battery", "on-ac", "suspend", "resume".
FourEventNames == EmittedNames \subseteq {"on-battery", "on-ac", "suspend", "resume"}

\* C7 witness: all four names have been emitted.
FourEventNamesWitness == EmittedNames = {"on-battery", "on-ac", "suspend", "resume"}

====
